---- MODULE Spec2Model ----
(***************************************************************************)
(* The useBackendVoiceAssistant React hook                                 *)
(* (react app/src/hooks/useBackendVoiceAssistant.js) as a state machine.   *)
(*                                                                         *)
(* The hook runs on the single browser event thread.  Every action below   *)
(* is one callback run to completion: a user operation, a WebSocket event, *)
(* a LiveKit room event, a timer, or the continuation of an `await` whose  *)
(* promise has settled.  Connect attempts are numbered 1..MaxAttempts in   *)
(* the order connectToVoiceService is called; the WebSocket, the audio     *)
(* stream / context / recorder and the LiveKit room that attempt a creates *)
(* are the a-th entries of ws, stream, ctx, recorder and room, and a ref   *)
(* holds the number of the attempt whose object it points to (0 = null).   *)
(***************************************************************************)
EXTENDS Naturals, Sequences, FiniteSets

\* ---------------------------------------------------------------- bounds
MaxAttempts == 2      \* calls of connectToVoiceService explored
MaxMsgs == 2          \* inbound user_transcript / ai_response frames explored
MaxSessions == 1      \* connect attempts of one conversation (SpecConversation)
MaxChunks == 2        \* recorded chunks in flight or sent (SpecCapture)
MaxStarts == 2        \* 'start' control messages counted
MaxTicks == 52        \* samples taken by one activation of the detection loop

Attempts == 1..MaxAttempts
Refs == 0..MaxAttempts

\* ------------------------------------------------------------- constants
NormalClosure == 1000     \* the close code onclose treats as normal
maxHistoryLength == 50    \* `const maxHistoryLength = 50 // Store last 50 samples`

VARIABLES
  \* React state of the hook (useState)
  isConnected, isListening, isSpeaking, messages, connectionStatus, error,
  sessionId, sessionData,
  \* refs of the hook (useRef)
  wsRef, mediaRecorderRef, audioContextRef, audioStreamRef, roomRef,
  analyserRef, animationFrameRef,
  \* the component is mounted (the cleanup effect has not run)
  mounted,
  \* per connect attempt: where its async function stands, its sessionDataToUse,
  \* and whether a startListening call is waiting on it
  pc, sessionDataToUse, listenWait,
  \* the objects the attempts created
  session, ws, room, track, stream, ctx, recorder, loops,
  \* environment bookkeeping
  nAttempts, posts, timers, errPending,
  \* recorded chunks: handed to a FileReader and not read yet / sent on a socket
  reading, sent,
  \* control messages sent on a socket: the 'start' messages (counted up to
  \* MaxStarts) and the action of the last one sent ("none" before the first)
  startsSent, lastControl,
  \* voice activity: the activityHistory of the latest activation (samples carry
  \* their number within the activation), the number of samples it has taken, and
  \* the detail of the last voiceActivity event ("none" before the first)
  activityHistory, ticks, voiceActivity,
  \* the detail of the last microphoneError event ("none" before the first)
  microphoneError

hookState == <<isConnected, isListening, isSpeaking, messages, connectionStatus,
               error, sessionId, sessionData>>
refs == <<wsRef, mediaRecorderRef, audioContextRef, audioStreamRef, roomRef,
          analyserRef, animationFrameRef>>
attemptState == <<pc, sessionDataToUse, listenWait>>
objects == <<session, ws, room, track, stream, ctx, recorder, loops>>
env == <<nAttempts, posts, timers, errPending>>
audio == <<reading, sent>>
activity == <<activityHistory, ticks, voiceActivity>>
control == <<startsSent, lastControl>>
capture == <<audio, control, activity, microphoneError>>
vars == <<hookState, refs, mounted, attemptState, objects, env, capture>>

\* ------------------------------------------------------------ error text
Err(kind, detail, code) == [kind |-> kind, detail |-> detail, code |-> code]
NoError == Err("null", "", 0)

\* A close message that drops event.reason.
CloseError_dropsReason(reason, code) == Err("Connection closed", "Unknown reason", code)

\* onclose: `Connection closed: ${event.reason || 'Unknown reason'} (Code: ${event.code})`
CloseError(reason, code) ==
  Err("Connection closed", IF reason = "" THEN "Unknown reason" ELSE reason, code)

\* ------------------------------------------------------------- the turns
Welcome == 0
Turn(role, content) == [type |-> role, content |-> content]
WelcomeTurn == Turn("assistant", Welcome)

\* Inbound turns carry their arrival number as content.
NumInbound == Cardinality({i \in DOMAIN messages : messages[i].content # Welcome})

\* -------------------------------------------------------- inbound frames
\* A decoded control message: its `type` discriminator, the transcript / text it
\* carries (content) and the `message` of an error frame ("" when it has none).
Frame(t, c, m) == [type |-> t, content |-> c, message |-> m]
NotJson == Frame("<not json>", 0, "")

TurnTypes == {"user_transcript", "ai_response"}
FlagTypes == {"listening_started", "listening_stopped",
              "processing_started", "processing_stopped"}
LogOnlyTypes == {"session_ready", "session_stopped", "connection_established"}
UnknownType == "pong"

\* The frames the backend may deliver next: Turn frames (numbered by arrival),
\* frames that only set flags or are only logged, error frames, and garbage.
TurnFrames ==
  IF NumInbound < MaxMsgs
    THEN {Frame(t, NumInbound + 1, "") : t \in TurnTypes} ELSE {}
ControlFrames ==
  {Frame(t, 0, "") : t \in FlagTypes \cup LogOnlyTypes \cup {UnknownType}}
ErrorFrames == {Frame("error", 0, m) : m \in {"", "backend failure"}}
Inbound == TurnFrames \cup ControlFrames \cup ErrorFrames \cup {NotJson}

\* The part of the hook's state the message handlers write.
Conversation ==
  [messages |-> messages, isListening |-> isListening, isSpeaking |-> isSpeaking,
   error |-> error, timers |-> timers]

\* The cases of handleMessageFromBackend's switch over data.type.
\* A user_transcript case that puts the new Turn in front: [userMessage, ...prev].
userTranscript_prepends(data, st) ==
  [st EXCEPT !.messages = <<Turn("user", data.content)>> \o @]

\* A user_transcript case that also lowers isSpeaking.
userTranscript_clearsSpeaking(data, st) ==
  [st EXCEPT !.messages = Append(@, Turn("user", data.content)), !.isSpeaking = FALSE]

\* case 'user_transcript': setMessages(prev => [...prev, userMessage])
userTranscript(data, st) ==
  [st EXCEPT !.messages = Append(@, Turn("user", data.content))]

\* case 'ai_response': the Turn, isSpeaking, and the 2-second auto-clear timer
aiResponse(data, st) ==
  [st EXCEPT !.messages = Append(@, Turn("assistant", data.content)),
             !.isSpeaking = TRUE,
             !.timers = @ + 1]

\* case 'listening_started'
listeningStarted(st) == [st EXCEPT !.isListening = TRUE, !.isSpeaking = FALSE]

\* case 'listening_stopped'
listeningStopped(st) == [st EXCEPT !.isListening = FALSE]

\* A processing_started case that forgets setIsListening(false).
processingStarted_keepsListening(st) == [st EXCEPT !.isSpeaking = TRUE]

\* case 'processing_started'
processingStarted(st) == [st EXCEPT !.isListening = FALSE, !.isSpeaking = TRUE]

\* case 'processing_stopped'
processingStopped(st) == [st EXCEPT !.isSpeaking = FALSE]

\* case 'error': setError(data.message || 'Unknown error from backend')
backendError(data, st) ==
  [st EXCEPT !.error = Err("backend",
                           IF data.message = "" THEN "Unknown error from backend"
                           ELSE data.message, 0)]

\* A default case that reports the unknown type as an error.
unknownType_setsError(st) == [st EXCEPT !.error = Err("backend", "Unknown message type", 0)]

\* default: console.log('Unknown message type:', data.type, data)
unknownType(st) == st

\* handleMessageFromBackend(data): the switch; the log-only types and the default
\* case change nothing.
handleMessageFromBackend(data, st) ==
  CASE data.type = "user_transcript" -> userTranscript(data, st)
    [] data.type = "ai_response" -> aiResponse(data, st)
    [] data.type = "listening_started" -> listeningStarted(st)
    [] data.type = "listening_stopped" -> listeningStopped(st)
    [] data.type = "processing_started" -> processingStarted(st)
    [] data.type = "processing_stopped" -> processingStopped(st)
    [] data.type \in LogOnlyTypes -> st
    [] data.type = "error" -> backendError(data, st)
    [] OTHER -> unknownType(st)

\* wsRef.current.onmessage: JSON.parse, then handleMessageFromBackend; a frame
\* that does not parse sets error.
onmessage(raw, st) ==
  IF raw = NotJson
    THEN [st EXCEPT !.error = Err("Error processing response from voice service", "", 0)]
    ELSE handleMessageFromBackend(raw, st)

\* handleDataReceived(payload): JSON.parse inside try, then its own switch.
handleDataReceived(raw, st) ==
  IF raw = NotJson THEN st
  ELSE CASE raw.type = "user_transcript" ->
              [st EXCEPT !.messages = Append(@, Turn("user", raw.content))]
         [] raw.type = "ai_response" ->
              [st EXCEPT !.messages = Append(@, Turn("assistant", raw.content))]
         [] raw.type = "listening_started" ->
              [st EXCEPT !.isListening = TRUE, !.isSpeaking = FALSE]
         [] raw.type = "listening_stopped" ->
              [st EXCEPT !.isListening = FALSE]
         [] raw.type = "processing_started" ->
              [st EXCEPT !.isListening = FALSE, !.isSpeaking = TRUE]
         [] raw.type = "processing_stopped" ->
              [st EXCEPT !.isSpeaking = FALSE]
         [] OTHER -> st

\* Write a Conversation value back into the hook's state.
SetConversation(st) ==
  /\ messages' = st.messages
  /\ isListening' = st.isListening
  /\ isSpeaking' = st.isSpeaking
  /\ error' = st.error
  /\ timers' = st.timers

\* ------------------------------------------------------------------ Init
\* The state after the hook's first render: every useState / useRef initial value.
Init ==
  /\ isConnected = FALSE /\ isListening = FALSE /\ isSpeaking = FALSE
  /\ messages = << >>
  /\ connectionStatus = "disconnected"
  /\ error = NoError
  /\ sessionId = 0 /\ sessionData = 0
  /\ wsRef = 0 /\ mediaRecorderRef = 0 /\ audioContextRef = 0
  /\ audioStreamRef = 0 /\ roomRef = 0 /\ analyserRef = 0
  /\ animationFrameRef = "null"
  /\ mounted = TRUE
  /\ pc = [a \in Attempts |-> "idle"]
  /\ sessionDataToUse = [a \in Attempts |-> 0]
  /\ listenWait = [a \in Attempts |-> FALSE]
  /\ session = [a \in Attempts |-> "none"]
  /\ ws = [a \in Attempts |-> "none"]
  /\ room = [a \in Attempts |-> "none"]
  /\ track = [a \in Attempts |-> FALSE]
  /\ stream = [a \in Attempts |-> "none"]
  /\ ctx = [a \in Attempts |-> "none"]
  /\ recorder = [a \in Attempts |-> "none"]
  /\ loops = 0
  /\ nAttempts = 0 /\ posts = 0 /\ timers = 0 /\ errPending = 0
  /\ reading = 0 /\ sent = 0
  /\ startsSent = 0
  /\ lastControl = "none"
  /\ activityHistory = << >> /\ ticks = 0 /\ voiceActivity = "none"
  /\ microphoneError = "none"

\* ------------------------------------------------------- resource helpers
\* track.stop() on every track of a stream / audioContext.close(): the first call
\* releases the object, a later call is a repeated release of it.
Release(s) == IF s = "live" THEN "released" ELSE "releasedAgain"

\* `if (audioStreamRef.current) audioStreamRef.current.getTracks().forEach(t => t.stop())`
StopTracks == IF audioStreamRef # 0
                THEN [stream EXCEPT ![audioStreamRef] = Release(@)] ELSE stream

\* `if (audioContextRef.current) audioContextRef.current.close()`
CloseContext == IF audioContextRef # 0
                  THEN [ctx EXCEPT ![audioContextRef] = Release(@)] ELSE ctx

\* `if (roomRef.current) roomRef.current.disconnect()`: a room that is connecting or
\* connected starts to disconnect (its Disconnected event follows); otherwise a no-op.
DisconnectRoom == IF roomRef # 0 /\ room[roomRef] \in {"connecting", "connected"}
                    THEN [room EXCEPT ![roomRef] = "closing"] ELSE room

\* `if (wsRef.current) wsRef.current.close()`
CloseSocket == IF wsRef # 0 /\ ws[wsRef] \in {"CONNECTING", "OPEN"}
                 THEN [ws EXCEPT ![wsRef] = "CLOSING"] ELSE ws

\* `wsRef.current && wsRef.current.readyState === WebSocket.OPEN`
SocketIsOpen == wsRef # 0 /\ ws[wsRef] = "OPEN"

\* `mediaRecorderRef.current && mediaRecorderRef.current.state !== 'inactive'`
RecorderActive == mediaRecorderRef # 0 /\ recorder[mediaRecorderRef] # "inactive"

\* mediaRecorderRef.current.stop() under that test
StopRecorder == IF RecorderActive
                  THEN [recorder EXCEPT ![mediaRecorderRef] = "inactive"] ELSE recorder

\* stopVoiceActivityDetection: cancels the frame animationFrameRef holds and nulls it.
\* Returns <<loops, animationFrameRef>>.
stopVoiceActivityDetection(n, frame) ==
  IF frame # "null"
    THEN <<IF frame = "pending" THEN n - 1 ELSE n, "null">>
    ELSE <<n, frame>>

\* startVoiceActivityDetection: one more detection loop, its first frame scheduled.
startVoiceActivityDetection(n, frame) ==
  IF analyserRef = 0 THEN <<n, frame>> ELSE <<n + 1, "pending">>

\* A push that never evicts.
pushSample_unbounded(history, sample) == Append(history, sample)

\* activityHistory.push(sample); if (activityHistory.length > maxHistoryLength)
\* activityHistory.shift()
pushSample(history, sample) ==
  LET pushed == Append(history, sample)
  IN  IF Len(pushed) > maxHistoryLength THEN Tail(pushed) ELSE pushed

\* What startVoiceActivityDetection does to the activity: a new, empty
\* activityHistory, and the first detectVoiceActivity call at once.
ActivityStarted ==
  IF analyserRef = 0 THEN UNCHANGED activity
  ELSE /\ activityHistory' = pushSample(<< >>, 1)
       /\ ticks' = 1
       /\ voiceActivity' = "sample"

\* What stopVoiceActivityDetection does to it: the event with detail 0.
ActivityStopped ==
  /\ voiceActivity' = "zero"
  /\ UNCHANGED <<activityHistory, ticks>>

\* ------------------------------------------------ connectToVoiceService
\* A head of connectToVoiceService that creates a session on every call.
ConnectStart_alwaysPosts(a) ==
  /\ a = nAttempts + 1 /\ a \in Attempts
  /\ nAttempts' = a
  /\ connectionStatus' = "connecting"
  /\ error' = NoError
  /\ pc' = [pc EXCEPT ![a] = "post"]
  /\ posts' = posts + 1
  /\ UNCHANGED <<sessionDataToUse, ws, wsRef>>

\* The synchronous head of connectToVoiceService, as attempt a: up to the await
\* of createSession (which issues the POST), or, with a session in the state, up
\* to the end of the function (the WebSocket is created at once).
ConnectStart(a) ==
  /\ a = nAttempts + 1 /\ a \in Attempts
  /\ nAttempts' = a
  /\ connectionStatus' = "connecting"
  /\ error' = NoError
  /\ IF sessionData = 0
       THEN /\ pc' = [pc EXCEPT ![a] = "post"]
            /\ posts' = posts + 1
            /\ UNCHANGED <<sessionDataToUse, ws, wsRef>>
       ELSE /\ sessionDataToUse' = [sessionDataToUse EXCEPT ![a] = sessionData]
            /\ ws' = [ws EXCEPT ![a] = "CONNECTING"]
            /\ wsRef' = a
            /\ pc' = [pc EXCEPT ![a] = "wsConnecting"]
            /\ UNCHANGED posts

\* connectToVoiceService() called from outside the hook (the page's mount effect).
ConnectToVoiceService ==
  /\ mounted /\ errPending = 0
  /\ ConnectStart(nAttempts + 1)
  /\ UNCHANGED <<isConnected, isListening, isSpeaking, messages, sessionId, sessionData,
                 mediaRecorderRef, audioContextRef, audioStreamRef, roomRef, analyserRef,
                 animationFrameRef, mounted, listenWait,
                 session, room, track, stream, ctx, recorder, loops, timers, errPending>>
  /\ UNCHANGED capture

\* createSession resolved: POST /sessions answered 2xx with a body that parses.
\* kind says whether the body carries livekit_room and livekit_user_token.
SessionCreated(a, kind) ==
  /\ errPending = 0 /\ pc[a] = "post"
  /\ session' = [session EXCEPT ![a] = kind]
  /\ sessionId' = a
  /\ sessionData' = a
  /\ sessionDataToUse' = [sessionDataToUse EXCEPT ![a] = a]
  /\ ws' = [ws EXCEPT ![a] = "CONNECTING"]
  /\ wsRef' = a
  /\ pc' = [pc EXCEPT ![a] = "wsConnecting"]
  /\ UNCHANGED <<isConnected, isListening, isSpeaking, messages, connectionStatus, error,
                 mediaRecorderRef, audioContextRef, audioStreamRef, roomRef, analyserRef,
                 animationFrameRef, mounted, listenWait,
                 room, track, stream, ctx, recorder, loops, env>>
  /\ UNCHANGED capture

\* The ways createSession throws: a non-2xx answer (its status line), or a fetch
\* that rejects (the TypeError's message).
SessionFailures == {"500 Internal Server Error", "Failed to fetch"}

\* A catch that swallows the failure.
CreateSessionError_swallowed(why) == NoError

\* setError(err.message || ...) in the catch of connectToVoiceService, err being
\* `Failed to create session: ${status} ${statusText} - ${errorText}` or fetch's error.
CreateSessionError(why) ==
  IF why = "Failed to fetch" THEN Err(why, "", 0)
  ELSE Err("Failed to create session", why, 0)

\* createSession threw: the catch of connectToVoiceService.
SessionFailed(a, why) ==
  /\ errPending = 0 /\ pc[a] = "post"
  /\ error' = CreateSessionError(why)
  /\ connectionStatus' = "error"
  /\ pc' = [pc EXCEPT ![a] = "done"]
  /\ UNCHANGED <<isConnected, isListening, isSpeaking, messages, sessionId, sessionData,
                 refs, mounted, sessionDataToUse, listenWait, objects, env>>
  /\ UNCHANGED capture

\* `${API_URL.replace('http', 'ws')}/ws/${sessionDataToUse.session_id}`: the
\* session whose id is in the URL of attempt a's WebSocket (session s has id s).
wsUrl(a) == sessionDataToUse[a]

\* The token onopen hands to connectToLiveKitRoom: sessionDataToUse.livekit_user_token
\* (session s has token s).
roomToken(a) == sessionDataToUse[a]

\* ------------------------------------------------------- wsRef.current.onopen
\* A tail of onopen that adds the welcome Turn twice.
MarkConnected_twoWelcomes(a) ==
  /\ isConnected' = TRUE
  /\ connectionStatus' = "connected"
  /\ error' = NoError
  /\ messages' = messages \o <<WelcomeTurn, WelcomeTurn>>
  /\ pc' = [pc EXCEPT ![a] = "done"]

\* The tail of onopen once the channel is up: isConnected, status, error, welcome Turn.
MarkConnected(a) ==
  /\ isConnected' = TRUE
  /\ connectionStatus' = "connected"
  /\ error' = NoError
  /\ messages' = Append(messages, WelcomeTurn)
  /\ pc' = [pc EXCEPT ![a] = "done"]

\* The socket of attempt a opens: onopen starts and awaits initializeAudio, which
\* awaits getUserMedia.
SocketOpened(a) ==
  /\ errPending = 0 /\ ws[a] = "CONNECTING"
  /\ ws' = [ws EXCEPT ![a] = "OPEN"]
  /\ pc' = [pc EXCEPT ![a] = "audio"]
  /\ UNCHANGED <<hookState, refs, mounted, sessionDataToUse, listenWait,
                 session, room, track, stream, ctx, recorder, loops, env>>
  /\ UNCHANGED capture

\* An onopen that goes to the LiveKit room whatever the session holds.
AfterInitializeAudio_alwaysRoom(a, err) ==
  /\ room' = [room EXCEPT ![a] = "connecting"]
  /\ roomRef' = a
  /\ pc' = [pc EXCEPT ![a] = "room"]
  /\ error' = err
  /\ UNCHANGED <<isConnected, connectionStatus, messages>>

\* onopen after `await initializeAudio()`: with LiveKit data in the session it
\* creates the room, stores it in roomRef and awaits room.connect; without, the
\* fallback marks the hook connected at once.  err is the error initializeAudio left.
AfterInitializeAudio(a, err) ==
  IF session[sessionDataToUse[a]] = "full"
    THEN /\ room' = [room EXCEPT ![a] = "connecting"]
         /\ roomRef' = a
         /\ pc' = [pc EXCEPT ![a] = "room"]
         /\ error' = err
         /\ UNCHANGED <<isConnected, connectionStatus, messages>>
    ELSE /\ MarkConnected(a)
         /\ UNCHANGED <<room, roomRef>>

\* getUserMedia resolved: requestMicrophoneAccess stores the stream and clears
\* error; initializeAudio creates the context, the recorder and the analyser.
MicrophoneGranted(a) ==
  /\ errPending = 0 /\ pc[a] = "audio"
  /\ audioStreamRef' = a
  /\ stream' = [stream EXCEPT ![a] = "live"]
  /\ audioContextRef' = a
  /\ ctx' = [ctx EXCEPT ![a] = "live"]
  /\ mediaRecorderRef' = a
  /\ recorder' = [recorder EXCEPT ![a] = "inactive"]
  /\ analyserRef' = a
  /\ AfterInitializeAudio(a, NoError)
  /\ UNCHANGED <<isListening, isSpeaking, sessionId, sessionData, wsRef,
                 animationFrameRef, mounted, sessionDataToUse, listenWait,
                 session, ws, track, loops, env>>
  /\ UNCHANGED capture

MicFailures == {"NotAllowedError", "NotFoundError"}

\* A requestMicrophoneAccess that gives every failure the same message.
microphoneMessage_generic(name) ==
  "Microphone access denied. Please allow microphone access in your browser settings."

\* The errorMessage requestMicrophoneAccess chooses by err.name.
microphoneMessage(name) ==
  CASE name = "NotAllowedError" ->
         "Microphone access was denied. Please click the microphone button again and allow access when prompted."
    [] name = "NotFoundError" ->
         "No microphone found. Please connect a microphone and try again."
    [] name = "NotReadableError" ->
         "Microphone is being used by another application. Please close other applications and try again."
    [] OTHER ->
         "Microphone access denied. Please allow microphone access in your browser settings."

\* getUserMedia rejected: requestMicrophoneAccess sets its message, dispatches it
\* in a microphoneError event and rethrows, the catch of initializeAudio replaces
\* the message in error and returns false; onopen goes on.
MicrophoneDenied(a, name) ==
  /\ errPending = 0 /\ pc[a] = "audio"
  /\ AfterInitializeAudio(a, Err("Failed to initialize audio", name, 0))
  /\ UNCHANGED <<isListening, isSpeaking, sessionId, sessionData, wsRef,
                 mediaRecorderRef, audioContextRef, audioStreamRef, analyserRef,
                 animationFrameRef, mounted, sessionDataToUse, listenWait,
                 session, ws, track, stream, ctx, recorder, loops, env>>
  /\ microphoneError' = microphoneMessage(name)
  /\ UNCHANGED <<audio, control, activity>>

\* room.connect resolved: connectToLiveKitRoom publishes the local track when a
\* stream was captured, else returns and onopen marks the hook connected.
RoomConnected(a) ==
  /\ errPending = 0 /\ pc[a] = "room" /\ room[a] = "connecting"
  /\ room' = [room EXCEPT ![a] = "connected"]
  /\ IF audioStreamRef # 0
       THEN /\ pc' = [pc EXCEPT ![a] = "publish"]
            /\ UNCHANGED <<isConnected, connectionStatus, error, messages>>
       ELSE MarkConnected(a)
  /\ UNCHANGED <<isListening, isSpeaking, sessionId, sessionData, refs, mounted,
                 sessionDataToUse, listenWait,
                 session, ws, track, stream, ctx, recorder, loops, env>>
  /\ UNCHANGED capture

\* A catch of onopen that sets error and leaves the status at 'connecting'.
RoomAttemptFailed_keepsStatus(a) ==
  /\ error' = Err("Failed to connect to voice service", "", 0)
  /\ UNCHANGED connectionStatus
  /\ pc' = [pc EXCEPT ![a] = "done"]

\* The catch of connectToLiveKitRoom and then of onopen: error and status 'error'.
RoomAttemptFailed(a) ==
  /\ error' = Err("Failed to connect to voice service", "", 0)
  /\ connectionStatus' = "error"
  /\ pc' = [pc EXCEPT ![a] = "done"]

\* room.connect rejected (transport or token failure, or the connect was aborted
\* by a disconnect() issued meanwhile).
RoomConnectFailed(a) ==
  /\ errPending = 0 /\ pc[a] = "room"
  /\ room' = [room EXCEPT ![a] = IF @ = "connecting" THEN "disconnected" ELSE @]
  /\ RoomAttemptFailed(a)
  /\ UNCHANGED <<isConnected, isListening, isSpeaking, messages, sessionId, sessionData,
                 refs, mounted, sessionDataToUse, listenWait,
                 session, ws, track, stream, ctx, recorder, loops, env>>
  /\ UNCHANGED capture

\* publishTrack resolved on a room that is still connected.
TrackPublished(a) ==
  /\ errPending = 0 /\ pc[a] = "publish" /\ room[a] = "connected"
  /\ MarkConnected(a)
  /\ UNCHANGED <<isListening, isSpeaking, sessionId, sessionData, refs, mounted,
                 sessionDataToUse, listenWait, objects, env>>
  /\ UNCHANGED capture

\* publishTrack rejected.
PublishFailed(a) ==
  /\ errPending = 0 /\ pc[a] = "publish"
  /\ RoomAttemptFailed(a)
  /\ UNCHANGED <<isConnected, isListening, isSpeaking, messages, sessionId, sessionData,
                 refs, mounted, sessionDataToUse, listenWait, objects, env>>
  /\ UNCHANGED capture

\* --------------------------------------- wsRef.current.onerror / onclose
\* The connection of socket a fails: readyState is CLOSED, onerror runs, and the
\* close event of the same task follows (errPending).
onerror(a) ==
  /\ errPending = 0 /\ ws[a] \in {"CONNECTING", "OPEN", "CLOSING"}
  /\ ws' = [ws EXCEPT ![a] = "CLOSED"]
  /\ error' = Err("Connection error", "", 0)
  /\ connectionStatus' = "error"
  /\ errPending' = a
  /\ pc' = [pc EXCEPT ![a] = IF @ = "wsConnecting" THEN "done" ELSE @]
  /\ UNCHANGED <<isConnected, isListening, isSpeaking, messages, sessionId, sessionData,
                 refs, mounted, sessionDataToUse, listenWait,
                 session, room, track, stream, ctx, recorder, loops,
                 nAttempts, posts, timers>>
  /\ UNCHANGED capture

\* Close codes other than 1000: of a failed connection, and of a clean close.
AbnormalClosure == 1006
GoingAway == 1001
CloseCodes == {NormalClosure, GoingAway, AbnormalClosure}
CloseReasons == {"", "server shutdown"}

\* The close events socket a can deliver now, <<code, reason>>: the close that
\* follows an error, or the end of a closing handshake of a socket that had opened
\* (a socket closed before it opened fails: onerror, then this).
CloseEvents(a) ==
  IF errPending = a THEN {<<AbnormalClosure, "">>}
  ELSE IF errPending = 0 /\ ws[a] \in {"OPEN", "CLOSING"} /\ pc[a] # "wsConnecting"
    THEN {<<NormalClosure, "">>} \cup {<<GoingAway, r>> : r \in CloseReasons}
    ELSE {}

\* The body of the onclose handler, for a close event with this code and reason.
\* It works on whatever the refs hold when it runs.
oncloseBody(code, reason) ==
  /\ isConnected' = FALSE
  /\ recorder' = StopRecorder
  /\ LET vad == IF RecorderActive
                  THEN stopVoiceActivityDetection(loops, animationFrameRef)
                  ELSE <<loops, animationFrameRef>>
     IN  loops' = vad[1] /\ animationFrameRef' = vad[2]
  /\ stream' = StopTracks
  /\ ctx' = CloseContext
  /\ room' = DisconnectRoom
  /\ IF RecorderActive THEN ActivityStopped ELSE UNCHANGED activity
  /\ IF code # NormalClosure
       THEN /\ error' = CloseError(reason, code)
            /\ connectionStatus' = "error"
       ELSE /\ connectionStatus' = "disconnected"
            /\ UNCHANGED error

onclose(a, code, reason) ==
  /\ <<code, reason>> \in CloseEvents(a)
  /\ ws' = [ws EXCEPT ![a] = "CLOSED"]
  /\ errPending' = 0
  /\ pc' = [pc EXCEPT ![a] = IF @ = "wsConnecting" THEN "done" ELSE @]
  /\ oncloseBody(code, reason)
  /\ UNCHANGED <<isListening, isSpeaking, messages, sessionId, sessionData,
                 wsRef, mediaRecorderRef, audioContextRef, audioStreamRef, roomRef,
                 analyserRef, mounted, sessionDataToUse, listenWait,
                 session, track, nAttempts, posts, timers>>
  /\ UNCHANGED <<audio, control, microphoneError>>

\* ------------------------------------------------------ LiveKit room events
\* RoomEvent.Disconnected of room a (remote or transport disconnect of a connected
\* room, or the end of a disconnect() the hook asked for): handleRoomDisconnected.
handleRoomDisconnected(a) ==
  /\ errPending = 0 /\ room[a] \in {"connected", "closing"}
  /\ room' = [room EXCEPT ![a] = "disconnected"]
  /\ isConnected' = FALSE
  /\ connectionStatus' = "disconnected"
  /\ stream' = StopTracks
  /\ ctx' = CloseContext
  /\ UNCHANGED <<isListening, isSpeaking, messages, error, sessionId, sessionData,
                 refs, mounted, attemptState, session, ws, track, recorder, loops, env>>
  /\ UNCHANGED capture

\* RoomEvent.TrackSubscribed with the agent's audio track.
handleTrackSubscribed(a) ==
  /\ errPending = 0 /\ room[a] = "connected" /\ ~track[a]
  /\ track' = [track EXCEPT ![a] = TRUE]
  /\ isSpeaking' = TRUE
  /\ UNCHANGED <<isConnected, isListening, messages, connectionStatus, error,
                 sessionId, sessionData, refs, mounted, attemptState,
                 session, ws, room, stream, ctx, recorder, loops, env>>
  /\ UNCHANGED capture

\* RoomEvent.TrackUnsubscribed with the agent's audio track.
handleTrackUnsubscribed(a) ==
  /\ errPending = 0 /\ track[a]
  /\ track' = [track EXCEPT ![a] = FALSE]
  /\ isSpeaking' = FALSE
  /\ UNCHANGED <<isConnected, isListening, messages, connectionStatus, error,
                 sessionId, sessionData, refs, mounted, attemptState,
                 session, ws, room, stream, ctx, recorder, loops, env>>
  /\ UNCHANGED capture

\* RoomEvent.DataReceived on room a.
DataReceived(a, raw) ==
  /\ errPending = 0 /\ room[a] = "connected"
  /\ SetConversation(handleDataReceived(raw, Conversation))
  /\ UNCHANGED <<isConnected, connectionStatus, sessionId, sessionData, refs, mounted,
                 attemptState, objects, nAttempts, posts, errPending>>
  /\ UNCHANGED capture

\* ------------------------------------------------- inbound control frames
\* A message event of socket a.
MessageReceived(a, raw) ==
  /\ errPending = 0 /\ ws[a] \in {"OPEN", "CLOSING"}
  /\ SetConversation(onmessage(raw, Conversation))
  /\ UNCHANGED <<isConnected, connectionStatus, sessionId, sessionData, refs, mounted,
                 attemptState, objects, nAttempts, posts, errPending>>
  /\ UNCHANGED capture

\* The callback of `setTimeout(() => setIsSpeaking(false), 2000)`; timers of equal
\* delay fire in the order they were armed.
AutoClearFired ==
  /\ errPending = 0 /\ timers > 0
  /\ timers' = timers - 1
  /\ isSpeaking' = FALSE
  /\ UNCHANGED <<isConnected, isListening, messages, connectionStatus, error,
                 sessionId, sessionData, refs, mounted, attemptState, objects,
                 nAttempts, posts, errPending>>
  /\ UNCHANGED capture

\* ------------------------------------------- startListening / stopListening
\* The part of startListening after its `if (!isConnected)` block: the control
\* message goes out if the socket is OPEN (nothing of the hook changes), and
\* start(1000) is called on the recorder if it exists and is inactive.  On a
\* stream with a live track the recorder starts and its onstart starts the
\* voice-activity loop; on a stream whose tracks have all been stopped start()
\* throws NotSupportedError and the catch sets error.
ListenNow ==
  /\ startsSent' = IF SocketIsOpen /\ startsSent < MaxStarts
                     THEN startsSent + 1 ELSE startsSent
  /\ lastControl' = IF SocketIsOpen THEN "start" ELSE lastControl
  /\ IF mediaRecorderRef # 0 /\ recorder[mediaRecorderRef] = "inactive"
       THEN IF stream[mediaRecorderRef] = "live"
              THEN /\ recorder' = [recorder EXCEPT ![mediaRecorderRef] = "recording"]
                   /\ LET vad == startVoiceActivityDetection(loops, animationFrameRef)
                      IN  loops' = vad[1] /\ animationFrameRef' = vad[2]
                   /\ ActivityStarted
                   /\ UNCHANGED error
              ELSE /\ error' = Err("Failed to start listening", "NotSupportedError", 0)
                   /\ UNCHANGED <<recorder, loops, animationFrameRef, activity>>
       ELSE UNCHANGED <<recorder, loops, animationFrameRef, activity, error>>

\* startListening(): not connected, it first calls connectToVoiceService and waits
\* for it and for one more second (listenWait); connected, it goes on at once.
startListeningBody ==
  IF ~isConnected
    THEN /\ ConnectStart(nAttempts + 1)
         /\ listenWait' = [listenWait EXCEPT ![nAttempts + 1] = TRUE]
         /\ UNCHANGED <<recorder, loops, animationFrameRef, control, activity>>
    ELSE /\ ListenNow
         /\ UNCHANGED <<connectionStatus, pc, sessionDataToUse, listenWait,
                        ws, wsRef, nAttempts, posts>>

\* stopListening(): the control message if the socket is OPEN, and recorder.stop()
\* if it is recording; its onstop stops the voice-activity loop.
stopListeningBody ==
  /\ IF mediaRecorderRef # 0 /\ recorder[mediaRecorderRef] = "recording"
       THEN /\ recorder' = [recorder EXCEPT ![mediaRecorderRef] = "inactive"]
            /\ LET vad == stopVoiceActivityDetection(loops, animationFrameRef)
               IN  loops' = vad[1] /\ animationFrameRef' = vad[2]
            /\ ActivityStopped
       ELSE UNCHANGED <<recorder, loops, animationFrameRef, activity>>
  /\ UNCHANGED <<connectionStatus, error, pc, sessionDataToUse, listenWait,
                 ws, wsRef, nAttempts, posts, startsSent>>
  /\ lastControl' = IF SocketIsOpen THEN "stop" ELSE lastControl

\* What no listening operation writes.
ListenFrame ==
  UNCHANGED <<isConnected, isListening, isSpeaking, messages, sessionId, sessionData,
              mediaRecorderRef, audioContextRef, audioStreamRef, roomRef, analyserRef,
              mounted, session, room, track, stream, ctx, timers, errPending>>
  /\ UNCHANGED <<audio, microphoneError>>

startListening ==
  /\ mounted /\ errPending = 0
  /\ startListeningBody
  /\ ListenFrame

stopListening ==
  /\ mounted /\ errPending = 0
  /\ stopListeningBody
  /\ ListenFrame

toggleListening ==
  /\ mounted /\ errPending = 0
  /\ IF isListening THEN stopListeningBody ELSE startListeningBody
  /\ ListenFrame

\* startListening resumes, its connectToVoiceService call (attempt a) having
\* returned and the second having passed.
startListeningResumed(a) ==
  /\ errPending = 0 /\ listenWait[a] /\ pc[a] # "post"
  /\ listenWait' = [listenWait EXCEPT ![a] = FALSE]
  /\ ListenNow
  /\ UNCHANGED <<connectionStatus, pc, sessionDataToUse, ws, wsRef,
                 nAttempts, posts>>
  /\ ListenFrame

\* A frame of a running detection loop: detectVoiceActivity dispatches its sample
\* and stores the next frame in animationFrameRef.
detectVoiceActivity ==
  /\ errPending = 0 /\ loops > 0
  /\ animationFrameRef' = "pending"
  /\ voiceActivity' = "sample"
  /\ \E latest \in BOOLEAN :
       /\ latest \/ loops > 1
       /\ IF latest
            THEN /\ ticks < MaxTicks
                 /\ ticks' = ticks + 1
                 /\ activityHistory' = pushSample(activityHistory, ticks + 1)
            ELSE UNCHANGED <<activityHistory, ticks>>
  /\ UNCHANGED <<hookState, wsRef, mediaRecorderRef, audioContextRef, audioStreamRef,
                 roomRef, analyserRef, mounted, attemptState, objects, env,
                 audio, control, microphoneError>>

\* ------------------------------------- mediaRecorderRef.current.ondataavailable
\* `roomRef.current && roomRef.current.state === ConnectionState.Connected`.  A room
\* that disconnect() was called on and whose Disconnected event is still to come
\* reports Connected or not (stillConnected).
RoomReportsConnected(stillConnected) ==
  /\ roomRef # 0
  /\ \/ room[roomRef] = "connected"
     \/ room[roomRef] = "closing" /\ stillConnected

\* A dataavailable event of attempt a's recorder (every second while it records),
\* with a chunk of this size: the chunk goes to a FileReader if it is not empty
\* and the room reports Connected, else nothing is done with it.
DataAvailable(a, size, stillConnected) ==
  /\ errPending = 0 /\ recorder[a] = "recording"
  /\ IF size > 0 /\ RoomReportsConnected(stillConnected)
       THEN reading + sent < MaxChunks /\ reading' = reading + 1
       ELSE UNCHANGED reading
  /\ UNCHANGED <<hookState, refs, mounted, attemptState, objects, env, sent,
                 control, activity, microphoneError>>

\* A reader.onload that sends whatever the state of the socket.
ReaderLoaded_sendsAlways ==
  /\ errPending = 0 /\ reading > 0
  /\ reading' = reading - 1
  /\ sent' = sent + 1
  /\ UNCHANGED <<hookState, refs, mounted, attemptState, objects, env,
                 control, activity, microphoneError>>

\* reader.onload: the chunk has been read; it is sent if the socket is OPEN now,
\* else it is gone.
ReaderLoaded ==
  /\ errPending = 0 /\ reading > 0
  /\ reading' = reading - 1
  /\ sent' = IF SocketIsOpen THEN sent + 1 ELSE sent
  /\ UNCHANGED <<hookState, refs, mounted, attemptState, objects, env,
                 control, activity, microphoneError>>

\* ------------------------------------------------------ cleanup on unmount
\* The cleanup of the hook's effect.  The frame it cancels stays in the ref.
Unmount ==
  /\ mounted /\ errPending = 0
  /\ mounted' = FALSE
  /\ recorder' = StopRecorder
  /\ LET vad == IF RecorderActive
                  THEN stopVoiceActivityDetection(loops, animationFrameRef)
                  ELSE <<loops, animationFrameRef>>
     IN  IF vad[2] = "pending"
           THEN loops' = vad[1] - 1 /\ animationFrameRef' = "cancelled"
           ELSE loops' = vad[1] /\ animationFrameRef' = vad[2]
  /\ stream' = StopTracks
  /\ ctx' = CloseContext
  /\ ws' = CloseSocket
  /\ room' = DisconnectRoom
  /\ IF RecorderActive THEN ActivityStopped ELSE UNCHANGED activity
  /\ UNCHANGED <<hookState, wsRef, mediaRecorderRef, audioContextRef, audioStreamRef,
                 roomRef, analyserRef, attemptState, session, track, env,
                 audio, control, microphoneError>>

\* ------------------------------------------------------------------ Next
\* What the backend, the browser and LiveKit do to the attempts in flight.
Lifecycle ==
  \/ \E a \in Attempts, kind \in {"full", "noLiveKit"} : SessionCreated(a, kind)
  \/ \E a \in Attempts, why \in SessionFailures : SessionFailed(a, why)
  \/ \E a \in Attempts : SocketOpened(a)
  \/ \E a \in Attempts : MicrophoneGranted(a)
  \/ \E a \in Attempts, name \in MicFailures : MicrophoneDenied(a, name)
  \/ \E a \in Attempts : RoomConnected(a)
  \/ \E a \in Attempts : RoomConnectFailed(a)
  \/ \E a \in Attempts : TrackPublished(a)
  \/ \E a \in Attempts : PublishFailed(a)
  \/ \E a \in Attempts : onerror(a)
  \/ \E a \in Attempts, code \in CloseCodes, reason \in CloseReasons :
        onclose(a, code, reason)
  \/ \E a \in Attempts : handleRoomDisconnected(a)

\* No attempt is in flight and no socket or room of the hook is alive.
NoLiveAttempt ==
  \A a \in Attempts : /\ pc[a] \in {"idle", "done"}
                      /\ ws[a] \in {"none", "CLOSED"}
                      /\ room[a] \in {"none", "disconnected"}
                      /\ ~listenWait[a]

\* Spec: the connection lifecycle under concurrent attempts.  connectToVoiceService
\* may be called at any time, also while earlier attempts are in flight; the
\* backend sends no control frames and nobody starts capture.
Next ==
  \/ ConnectToVoiceService
  \/ Lifecycle
  \/ Unmount

Spec == Init /\ [][Next]_vars

\* SpecReconnect: lifecycle and capture for a caller that connects again only
\* once the previous attempt has ended (its socket closed, its room disconnected).
NextReconnect ==
  \/ NoLiveAttempt /\ ConnectToVoiceService
  \/ Lifecycle
  \/ (isConnected \/ NoLiveAttempt) /\ startListening
  \/ stopListening
  \/ (isConnected \/ NoLiveAttempt) /\ toggleListening
  \/ \E a \in Attempts : startListeningResumed(a)
  \/ Unmount

SpecReconnect == Init /\ [][NextReconnect]_vars

\* SpecConversation: the conversation over at most MaxSessions successive
\* attempts: every Turn, flag and log-only frame (and frames of unknown type) on
\* the WebSocket and on the LiveKit data channel, and the auto-clear timer.
NextConversation ==
  \/ NoLiveAttempt /\ nAttempts < MaxSessions /\ ConnectToVoiceService
  \/ Lifecycle
  \/ \E a \in Attempts, raw \in TurnFrames \cup ControlFrames : MessageReceived(a, raw)
  \/ \E a \in Attempts, raw \in TurnFrames \cup ControlFrames : DataReceived(a, raw)
  \/ AutoClearFired

SpecConversation == Init /\ [][NextConversation]_vars

\* The frames of SpecProtocol: error frames, a frame that is not JSON, a frame of
\* unknown type, and the two frames that raise isListening / isSpeaking.
ProtocolFrames ==
  ErrorFrames \cup {NotJson}
    \cup {Frame(t, 0, "") : t \in {UnknownType, "listening_started", "processing_started"}}

\* SpecProtocol: what the message handlers do with frames that carry no Turn, on
\* the WebSocket and on the LiveKit data channel, and what the room's track
\* events do, over at most MaxSessions successive attempts.
NextProtocol ==
  \/ NoLiveAttempt /\ nAttempts < MaxSessions /\ ConnectToVoiceService
  \/ Lifecycle
  \/ \E a \in Attempts, raw \in ProtocolFrames : MessageReceived(a, raw)
  \/ \E a \in Attempts, raw \in ProtocolFrames : DataReceived(a, raw)
  \/ \E a \in Attempts : handleTrackSubscribed(a)
  \/ \E a \in Attempts : handleTrackUnsubscribed(a)

SpecProtocol == Init /\ [][NextProtocol]_vars

\* SpecCapture: recording over at most MaxSessions successive attempts: capture
\* is started and stopped on a connected hook, the recorder delivers chunks and
\* the readers finish, while the socket and the room come and go.
NextCapture ==
  \/ NoLiveAttempt /\ nAttempts < MaxSessions /\ ConnectToVoiceService
  \/ Lifecycle
  \/ isConnected /\ startListening
  \/ stopListening
  \/ isConnected /\ toggleListening
  \/ \E a \in Attempts : MessageReceived(a, Frame("listening_started", 0, ""))
  \/ \E a \in Attempts, size \in {0, 1}, stillConnected \in BOOLEAN :
        DataAvailable(a, size, stillConnected)
  \/ ReaderLoaded
  \/ Unmount

SpecCapture == Init /\ [][NextCapture]_vars

\* SpecVad: the voice-activity loop over at most MaxSessions successive attempts:
\* capture is started and stopped on a connected hook and the loop's frames run,
\* while the socket and the room come and go.
NextVad ==
  \/ NoLiveAttempt /\ nAttempts < MaxSessions /\ ConnectToVoiceService
  \/ Lifecycle
  \/ isConnected /\ startListening
  \/ stopListening
  \/ detectVoiceActivity
  \/ Unmount

SpecVad == Init /\ [][NextVad]_vars

\* The names getUserMedia rejects with in SpecMicrophone: the three that
\* requestMicrophoneAccess knows and one that it does not.
MicFailureNames == MicFailures \cup {"NotReadableError", "AbortError"}

\* SpecMicrophone: the connection lifecycle over at most MaxSessions successive
\* attempts, with every kind of microphone failure.
NextMicrophone ==
  \/ NoLiveAttempt /\ nAttempts < MaxSessions /\ ConnectToVoiceService
  \/ Lifecycle
  \/ \E a \in Attempts, name \in MicFailureNames : MicrophoneDenied(a, name)

SpecMicrophone == Init /\ [][NextMicrophone]_vars

\* The answer attempt a is waiting for arrives: of the backend to POST /sessions,
\* of the WebSocket (open, or error while connecting), of the microphone prompt,
\* of room.connect, of publishTrack.
Responds(a) ==
  \/ \E kind \in {"full", "noLiveKit"} : SessionCreated(a, kind)
  \/ \E why \in SessionFailures : SessionFailed(a, why)
  \/ SocketOpened(a)
  \/ pc[a] = "wsConnecting" /\ onerror(a)
  \/ MicrophoneGranted(a)
  \/ \E name \in MicFailures : MicrophoneDenied(a, name)
  \/ RoomConnected(a)
  \/ RoomConnectFailed(a)
  \/ TrackPublished(a)
  \/ PublishFailed(a)

\* The close event that follows an error event of the same socket.
CloseAfterError ==
  \E a \in Attempts : errPending = a /\ onclose(a, AbnormalClosure, "")

\* SpecSettle: at most MaxSessions successive connect requests, from the page or
\* from startListening, with the connection lifecycle and the unmount; every
\* party a request waits for answers in the end.
NextSettle ==
  \/ NoLiveAttempt /\ nAttempts < MaxSessions /\ ConnectToVoiceService
  \/ Lifecycle
  \/ ~isConnected /\ NoLiveAttempt /\ nAttempts < MaxSessions /\ startListening
  \/ \E a \in Attempts : startListeningResumed(a)
  \/ Unmount

SpecSettle ==
  /\ Init /\ [][NextSettle]_vars
  /\ \A a \in Attempts : WF_vars(Responds(a))
  /\ WF_vars(CloseAfterError)

\* ================================================================ claims

\* C1: after any sequence of inbound control messages, isListening and
\* isSpeaking are not both true, except while the auto-clear timer armed by an
\* ai_response has not fired yet; once no such timer is pending, at most one of
\* the two flags is true.
C1_MutualExclusion == (isListening /\ isSpeaking) => timers > 0

\* The exception of C1 is reached: an ai_response arrived while listening.
C1_Witness == isListening /\ isSpeaking /\ timers > 0 /\ Len(messages) > 1

IsPrefix(s, t) == Len(s) <= Len(t) /\ SubSeq(t, 1, Len(s)) = s

\* Inbound Turns sit in messages in the order of their arrival numbers.
InboundOrdered ==
  \A i, j \in DOMAIN messages :
    (i < j /\ messages[i].content # Welcome /\ messages[j].content # Welcome)
      => messages[i].content < messages[j].content

\* C2: messages only grows by appending at its end (every step leaves the old
\* sequence as a prefix of the new one), and the Turn of an earlier
\* user_transcript / ai_response sits at a lower index than that of a later one.
C2_AppendOnly == [][IsPrefix(messages, messages')]_vars /\ []InboundOrdered

\* Two inbound Turns after the welcome Turn.
C2_Witness ==
  /\ Len(messages) >= 3
  /\ messages[1] = WelcomeTurn
  /\ \E i, j \in DOMAIN messages :
       i < j /\ messages[i].content = 1 /\ messages[j].content = 2

\* The live channels of the hook.
OpenSockets == {a \in Attempts : ws[a] \in {"CONNECTING", "OPEN"}}
OpenRooms == {a \in Attempts : room[a] \in {"connecting", "connected"}}

\* Nothing has disconnected yet: the hook is mounted and no socket or room it
\* created has closed or is closing.
NoDisconnectYet ==
  /\ mounted /\ errPending = 0
  /\ \A a \in Attempts : /\ ws[a] \notin {"CLOSING", "CLOSED"}
                         /\ room[a] \notin {"closing", "disconnected"}

\* C3: connect called twice with no disconnect in between creates one session
\* (one POST /sessions) and one channel (one WebSocket, one LiveKit room),
\* whatever the interleaving of the two calls.
C3_OneSessionOneChannel ==
  NoDisconnectYet =>
    /\ posts <= 1
    /\ Cardinality({a \in Attempts : ws[a] # "none"}) <= 1
    /\ Cardinality({a \in Attempts : room[a] # "none"}) <= 1

\* C4: while the hook is mounted, connectionStatus is 'connected' only while the
\* control WebSocket (the one wsRef holds) is open.
C4_ConnectedOnlyWhileOpen ==
  (mounted /\ connectionStatus = "connected") => (wsRef # 0 /\ ws[wsRef] = "OPEN")

\* C5: at most one WebSocket and at most one LiveKit room of the hook is open or
\* connecting at any time.
C5_OneLiveChannel == Cardinality(OpenSockets) <= 1 /\ Cardinality(OpenRooms) <= 1

\* C6: however often teardown runs (onclose, the Disconnected handler, the unmount
\* cleanup), each captured stream has its tracks stopped, and each audio context
\* is closed, at most once.
C6_ReleasedAtMostOnce ==
  \A a \in Attempts : stream[a] # "releasedAgain" /\ ctx[a] # "releasedAgain"

\* The state C7 asks for after a disconnection event.
TornDown ==
  /\ ~RecorderActive
  /\ audioStreamRef # 0 => stream[audioStreamRef] # "live"
  /\ wsRef # 0 => ws[wsRef] \in {"CLOSING", "CLOSED"}
  /\ roomRef # 0 => room[roomRef] \in {"closing", "disconnected"}
  /\ connectionStatus \in {"disconnected", "error"}

\* A WebSocket error counts with the close event that follows it in the same task.
DisconnectionEvent ==
  \/ \E a \in Attempts, code \in CloseCodes, reason \in CloseReasons :
        onclose(a, code, reason)
  \/ \E a \in Attempts : handleRoomDisconnected(a)

\* C7: the state reached by any disconnection event (WebSocket close, WebSocket
\* error with its close, room Disconnected) has the recorder stopped, the stream's tracks
\* stopped, the WebSocket and the room closed, and status 'disconnected' or 'error'.
C7_FullTeardown == [][DisconnectionEvent => TornDown']_vars

\* Every asynchronous step the hook started has run to its end.
Settled ==
  /\ errPending = 0
  /\ \A a \in Attempts : /\ pc[a] \in {"idle", "done"}
                         /\ ws[a] \notin {"CONNECTING", "CLOSING"}
                         /\ room[a] # "closing"
                         /\ ~listenWait[a]

NothingActive ==
  /\ OpenSockets = {} /\ OpenRooms = {}
  /\ \A a \in Attempts : stream[a] # "live"
  /\ loops = 0 /\ timers = 0

\* C8: after unmount no state of the hook is updated any more, and once the steps
\* in flight have ended no WebSocket, room, captured stream, animation-frame loop
\* or auto-clear timer of the hook is active.
C8_UnmountCancelsAll ==
  /\ [][~mounted => UNCHANGED hookState]_vars
  /\ []((~mounted /\ Settled) => NothingActive)

\* C9: a close with a code other than 1000 sets connectionStatus to 'error' and
\* error to a message with the close reason and code; a connect requested in any
\* state sets connectionStatus to 'connecting' and clears error, and it can be
\* requested whenever the status is 'error'.
C9_ErrorIsRecoverable ==
  /\ [][\A a \in Attempts, code \in CloseCodes, reason \in CloseReasons :
          (onclose(a, code, reason) /\ code # NormalClosure)
            => /\ connectionStatus' = "error"
               /\ error'.kind = "Connection closed"
               /\ error'.detail = (IF reason = "" THEN "Unknown reason" ELSE reason)
               /\ error'.code = code]_vars
  /\ [][nAttempts' # nAttempts
          => (connectionStatus' = "connecting" /\ error' = NoError)]_vars
  /\ []((connectionStatus = "error" /\ mounted /\ errPending = 0
           /\ nAttempts < MaxAttempts) => ENABLED ConnectToVoiceService)

\* A connect requested after an abnormal close: the second attempt has started,
\* the first one's socket is closed.
C9_Witness ==
  /\ nAttempts = 2 /\ ws[1] = "CLOSED" /\ pc[2] # "done"
  /\ connectionStatus = "connecting" /\ error = NoError

\* C10: a close with code 1000 leaves connectionStatus = 'disconnected' and
\* isConnected, isListening and isSpeaking all false.
C10_NormalCloseClearsFlags ==
  [][\A a \in Attempts, reason \in CloseReasons :
       onclose(a, NormalClosure, reason)
         => /\ connectionStatus' = "disconnected"
            /\ ~isConnected' /\ ~isListening' /\ ~isSpeaking']_vars

\* Attempt a's onopen reaches its end with status 'connected'.
ConnectedBy(a) ==
  pc[a] # "done" /\ pc'[a] = "done" /\ connectionStatus' = "connected"

\* C11: for an attempt whose POST /sessions returned a session with LiveKit room
\* and token, the WebSocket is opened at /ws/{that session's id} and the room is
\* connected with that session's token; the step that sets connectionStatus to
\* 'connected' finds the room connected and appends exactly one welcome Turn, and
\* no other step appends a welcome Turn.
C11_ConnectAfterRoom ==
  /\ [](\A a \in Attempts :
          /\ (session[a] = "full" /\ ws[a] # "none") => wsUrl(a) = a
          /\ (session[a] = "full" /\ room[a] # "none") => roomToken(a) = a)
  /\ [][\A a \in Attempts :
          (ConnectedBy(a) /\ session[sessionDataToUse[a]] = "full")
            => /\ room'[a] = "connected"
               /\ messages' = Append(messages, WelcomeTurn)]_vars
  /\ [][(Len(messages') > Len(messages) /\ messages'[Len(messages')] = WelcomeTurn)
          => \E a \in Attempts : ConnectedBy(a)]_vars

\* The scenario of C11 has run to its end: session, socket, microphone, room,
\* published track, status 'connected', one welcome Turn.
C11_Witness ==
  /\ session[1] = "full" /\ wsUrl(1) = 1 /\ roomToken(1) = 1
  /\ ws[1] = "OPEN" /\ room[1] = "connected" /\ stream[1] = "live"
  /\ pc[1] = "done" /\ connectionStatus = "connected" /\ isConnected
  /\ messages = <<WelcomeTurn>>

\* The ai_response frames that can arrive now.
AiResponses == {raw \in TurnFrames : raw.type = "ai_response"}

\* C12: after an ai_response with text T is processed, on the WebSocket or on the
\* LiveKit data channel, Turn {assistant, T} is the last element of messages,
\* isSpeaking is true and its auto-clear timer is armed; the firing of the timer
\* leaves isSpeaking false.
C12_AiResponseSpeaks ==
  /\ [][\A a \in Attempts, raw \in AiResponses :
          (MessageReceived(a, raw) \/ DataReceived(a, raw))
            => /\ messages' = Append(messages, Turn("assistant", raw.content))
               /\ isSpeaking'
               /\ timers' = timers + 1]_vars
  /\ [][AutoClearFired => ~isSpeaking']_vars

\* C13: a timer armed by an ai_response is superseded by a later ai_response:
\* with two timers pending the one that fires first is the earlier one, a later
\* ai_response has been processed since it was armed, and its firing leaves
\* isSpeaking as it was (true until the later timer's own delay has elapsed).
C13_TimerSuperseded ==
  [][(AutoClearFired /\ timers >= 2) => isSpeaking' = isSpeaking]_vars

\* C14: a frame that is not JSON, on the WebSocket or on the LiveKit data channel,
\* is dropped: no field of the hook's state changes, error included, and the
\* socket and the room are left as they were (later messages are still processed).
C14_UndecodableDropped ==
  [][\A a \in Attempts :
       (MessageReceived(a, NotJson) \/ DataReceived(a, NotJson))
         => UNCHANGED <<hookState, ws, room>>]_vars

\* A frame whose type is outside the taxonomy.
UnknownFrame == Frame(UnknownType, 0, "")

\* C15: a frame whose type is outside the taxonomy, on the WebSocket or on the
\* LiveKit data channel, leaves connectionStatus, isConnected, isListening,
\* isSpeaking, error and messages unchanged, and leaves the socket and the room
\* as they were (later messages are still processed).
C15_UnknownTypeIgnored ==
  [][\A a \in Attempts :
       (MessageReceived(a, UnknownFrame) \/ DataReceived(a, UnknownFrame))
         => UNCHANGED <<hookState, ws, room>>]_vars

\* A state in which a frame of unknown type is processed on both channels and has
\* something to disturb: a flag is up, an error is shown, a Turn is in messages.
C15_Witness ==
  \E a \in Attempts :
    /\ ENABLED MessageReceived(a, UnknownFrame)
    /\ ENABLED DataReceived(a, UnknownFrame)
    /\ isListening /\ error.kind = "backend" /\ Len(messages) > 0
    /\ connectionStatus = "connected"

\* The error field holds the message of a NotAllowedError denial.
ShowsDenial == error.kind = "Failed to initialize audio" /\ error.detail = "NotAllowedError"

\* C16: when getUserMedia is denied with NotAllowedError during a connect attempt,
\* error holds the message of the denial once onopen has gone on, and the step
\* that settles the attempt (status 'connected' or 'error') leaves that message
\* in error.
C16_DenialStaysVisible ==
  /\ [][\A a \in Attempts : MicrophoneDenied(a, "NotAllowedError") => ShowsDenial']_vars
  /\ [][\A a \in Attempts :
          (pc[a] = "room" /\ stream[a] = "none" /\ ShowsDenial /\ pc'[a] = "done")
            => ShowsDenial']_vars

\* setError(data.message || 'Unknown error from backend') has run for this frame.
ShowsBackendError(raw) ==
  /\ error.kind = "backend"
  /\ error.detail = (IF raw.message = "" THEN "Unknown error from backend" ELSE raw.message)

\* What C17 asks of the step that processes error frame raw.
BackendErrorEffect(raw) ==
  /\ ShowsBackendError(raw)'
  /\ UNCHANGED <<connectionStatus, isConnected, isListening, isSpeaking,
                 messages, ws, room>>

\* C17: a backend error frame, on the WebSocket or on the LiveKit data channel,
\* sets error to the frame's message (a default text when it has none) and leaves
\* connectionStatus, isConnected, isListening, isSpeaking, messages, the socket
\* and the room unchanged: wherever such a frame can be processed, processing it
\* has that effect.
C17_BackendErrorShown ==
  \A a \in Attempts, raw \in ErrorFrames :
    /\ ENABLED MessageReceived(a, raw)
          => ENABLED (MessageReceived(a, raw) /\ BackendErrorEffect(raw))
    /\ ENABLED DataReceived(a, raw)
          => ENABLED (DataReceived(a, raw) /\ BackendErrorEffect(raw))

\* C18: a recorded chunk goes to a reader only if the room reports Connected when
\* the chunk becomes available (a room not yet connected, or disconnected, never),
\* and a chunk is sent only by the end of its read, one chunk per read, with the
\* WebSocket OPEN at that moment; a chunk that is not sent then is not kept.
C18_ForwardOnlyWhileConnected ==
  /\ [][reading' > reading
          => (roomRef # 0 /\ room[roomRef] \in {"connected", "closing"})]_vars
  /\ [][sent' # sent
          => (sent' = sent + 1 /\ reading' = reading - 1 /\ SocketIsOpen)]_vars
  /\ [][reading' < reading => reading' = reading - 1]_vars

\* One chunk has been sent, and another is being read while the socket is no
\* longer open.
C18_Witness == sent >= 1 /\ reading >= 1 /\ ~SocketIsOpen

\* C19: a connectToVoiceService call made with a session in the hook's state
\* issues no POST /sessions, opens its WebSocket at once at /ws/{the existing
\* session's id}, and leaves sessionId and sessionData as they were.
C19_SessionReused ==
  [][(nAttempts' # nAttempts /\ sessionData # 0)
       => /\ posts' = posts
          /\ ws'[nAttempts'] = "CONNECTING" /\ wsRef' = nAttempts'
          /\ wsUrl(nAttempts)' = sessionId
          /\ sessionId' = sessionId /\ sessionData' = sessionData]_vars

\* A second attempt has reused the session of the first: one POST, two sockets
\* at the same session id.
C19_Witness ==
  /\ nAttempts = 2 /\ posts = 1 /\ sessionId = 1
  /\ ws[1] # "none" /\ ws[2] # "none" /\ wsUrl(1) = 1 /\ wsUrl(2) = 1

\* Attempt a issued a POST /sessions that failed.
PostFailed(a) == pc[a] = "done" /\ sessionDataToUse[a] = 0

\* C20: the step in which POST /sessions fails issues no further POST, opens no
\* WebSocket, leaves sessionId and sessionData as they were, sets connectionStatus
\* to 'error' and error to the failure's message; an attempt that ended so never
\* has a WebSocket or a room, and after a first attempt that ended so exactly one
\* POST has been issued and sessionId and sessionData are unset.
C20_SessionFailureSurfaced ==
  /\ [][\A a \in Attempts, why \in SessionFailures :
          SessionFailed(a, why)
            => /\ posts' = posts /\ nAttempts' = nAttempts
               /\ ws' = ws /\ wsRef' = wsRef
               /\ sessionId' = sessionId /\ sessionData' = sessionData
               /\ connectionStatus' = "error"
               /\ error' # NoError
               /\ (error'.kind = why \/ error'.detail = why)]_vars
  /\ [](\A a \in Attempts : PostFailed(a) => (ws[a] = "none" /\ room[a] = "none"))
  /\ []((nAttempts = 1 /\ PostFailed(1))
          => (posts = 1 /\ sessionId = 0 /\ sessionData = 0 /\ wsRef = 0))

\* The first attempt's POST has failed and nothing else has been asked for.
C20_Witness ==
  /\ nAttempts = 1 /\ PostFailed(1) /\ posts = 1
  /\ connectionStatus = "error" /\ error.detail = "500 Internal Server Error"
  /\ sessionId = 0 /\ wsRef = 0

\* Capture is active: the recorder mediaRecorderRef holds is recording.
RecordingNow == mediaRecorderRef # 0 /\ recorder[mediaRecorderRef] = "recording"

\* C21: startListening called while capture is active (recorder recording,
\* isListening true) sends no control message, leaves the recorder as it is and
\* changes no field of the hook's state.
C21_StartWhileListeningNoOp ==
  [][(RecordingNow /\ isListening /\ startListening)
       => (startsSent' = startsSent /\ UNCHANGED <<hookState, recorder>>)]_vars

\* The frames of the six types both handlers have a case for.
SharedFrames ==
  TurnFrames \cup {Frame(t, 0, "") : t \in FlagTypes}

\* Both channels of attempt a deliver: its socket is open, its room connected.
BothChannelsUp(a) == ws[a] = "OPEN" /\ room[a] = "connected"

\* C22: in every state in which both channels deliver, handleDataReceived and
\* handleMessageFromBackend applied to the same frame of one of the six shared
\* types yield the same messages, isListening, isSpeaking and error.
C22_SameTransitionOnBothChannels ==
  (\E a \in Attempts : BothChannelsUp(a))
    => \A raw \in SharedFrames :
         LET viaRoom == handleDataReceived(raw, Conversation)
             viaSocket == handleMessageFromBackend(raw, Conversation)
         IN  /\ viaRoom.messages = viaSocket.messages
             /\ viaRoom.isListening = viaSocket.isListening
             /\ viaRoom.isSpeaking = viaSocket.isSpeaking
             /\ viaRoom.error = viaSocket.error

\* C23: in every state between handlers, whatever events have run (control
\* frames on either channel, track subscribed / unsubscribed), isListening and
\* isSpeaking are not both true.
C23_NeverBothFlags == ~(isListening /\ isSpeaking)

\* C24: the close of attempt a's WebSocket discards the session of that socket
\* (sessionId and sessionData no longer hold it), and a connect requested while
\* the state's session is that of a closed socket issues a POST /sessions.
C24_SessionDiscardedOnClose ==
  /\ [][\A a \in Attempts, code \in CloseCodes, reason \in CloseReasons :
          onclose(a, code, reason)
            => (sessionId' # wsUrl(a) /\ sessionData' # wsUrl(a))]_vars
  /\ [][(nAttempts' # nAttempts
           /\ \E a \in Attempts : ws[a] = "CLOSED" /\ wsUrl(a) = sessionData)
          => posts' = posts + 1]_vars

\* C25: the step in which room.connect or publishTrack of attempt a fails sets
\* connectionStatus to 'error' and error to the 'Failed to connect to voice
\* service' message, leaves isConnected false, appends no Turn and ends the
\* attempt (so that no welcome Turn follows for it).
C25_RoomFailureSurfaced ==
  [][\A a \in Attempts :
       (RoomConnectFailed(a) \/ PublishFailed(a))
         => /\ connectionStatus' = "error"
            /\ error'.kind = "Failed to connect to voice service"
            /\ ~isConnected'
            /\ messages' = messages
            /\ pc'[a] = "done"]_vars

\* publishTrack failed on a connected room over an open socket.
C25_Witness ==
  /\ pc[1] = "done" /\ ws[1] = "OPEN" /\ room[1] = "connected" /\ stream[1] = "live"
  /\ connectionStatus = "error" /\ error.kind = "Failed to connect to voice service"
  /\ ~isConnected /\ messages = << >>

\* Attempt a's onopen goes on after initializeAudio, its session lacking
\* livekit_room or livekit_user_token.
FallbackStep(a) ==
  /\ pc[a] = "audio" /\ pc'[a] # "audio"
  /\ session[sessionDataToUse[a]] = "noLiveKit"

\* C26: with a session that lacks the LiveKit data, onopen (once initializeAudio
\* has returned, microphone or not) sets isConnected and status 'connected' and
\* appends the welcome Turn, creates no room and leaves roomRef as it was, and
\* does so whatever the state of the socket at that moment.
C26_FallbackMarksConnected ==
  [][\A a \in Attempts :
       FallbackStep(a)
         => /\ isConnected' /\ connectionStatus' = "connected"
            /\ messages' = Append(messages, WelcomeTurn)
            /\ room'[a] = "none" /\ roomRef' = roomRef
            /\ pc'[a] = "done"]_vars

\* The fallback has marked the hook connected although the socket had closed
\* while the microphone was being asked for.
C26_Witness ==
  /\ session[1] = "noLiveKit" /\ pc[1] = "done" /\ nAttempts = 1
  /\ isConnected /\ connectionStatus = "connected" /\ messages = <<WelcomeTurn>>
  /\ roomRef = 0 /\ room[1] = "none" /\ ws[1] = "CLOSED"

\* C27: a rejected getUserMedia dispatches a microphoneError event whose message
\* is chosen by the failure's name (NotAllowedError, NotFoundError and
\* NotReadableError each have their own, every other name the default one) and
\* rethrows (initializeAudio creates no stream, context or recorder and leaves
\* its own message); a resolved one stores the stream and leaves error cleared.
C27_MicrophoneFailuresDistinguished ==
  /\ [][\A a \in Attempts, name \in MicFailureNames :
          MicrophoneDenied(a, name)
            => /\ microphoneError' = microphoneMessage(name)
               /\ UNCHANGED <<audioStreamRef, audioContextRef, mediaRecorderRef,
                              stream, ctx, recorder>>
               /\ pc'[a] = "room" => error' = Err("Failed to initialize audio", name, 0)]_vars
  /\ [](\A m, n \in MicFailureNames \ {"AbortError"} :
          /\ m # n => microphoneMessage(m) # microphoneMessage(n)
          /\ microphoneMessage(m) # microphoneMessage("AbortError"))
  /\ [][\A a \in Attempts :
          MicrophoneGranted(a)
            => /\ audioStreamRef' = a /\ stream'[a] = "live"
               /\ error' = NoError
               /\ microphoneError' = microphoneError]_vars

\* A NotReadableError denial has been reported: its message is the last
\* microphoneError event, nothing was captured, and the attempt waits for the room.
C27_Witness ==
  /\ microphoneError = microphoneMessage("NotReadableError")
  /\ pc[1] = "room" /\ audioStreamRef = 0
  /\ error = Err("Failed to initialize audio", "NotReadableError", 0)

\* C28: after any number of detection ticks of one activation, the history a
\* voiceActivity event carries holds at most maxHistoryLength (50) samples, and
\* they are the most recent samples taken, oldest first.
C28_HistoryIsRingBuffer ==
  LET n == Len(activityHistory)
  IN  /\ n <= maxHistoryLength
      /\ n = (IF ticks < maxHistoryLength THEN ticks ELSE maxHistoryLength)
      /\ \A i \in 1..n : activityHistory[i] = ticks - n + i

\* More ticks than the buffer holds: the first samples have been evicted.
C28_Witness ==
  /\ ticks > maxHistoryLength /\ voiceActivity = "sample" /\ loops = 1
  /\ Len(activityHistory) = maxHistoryLength
  /\ activityHistory[1] = ticks - maxHistoryLength + 1
  /\ activityHistory[maxHistoryLength] = ticks

\* Some recorder of the hook is recording.
AnyRecording == \E a \in Attempts : recorder[a] = "recording"

\* The recorder mediaRecorderRef holds stops in this step (its onstop calls
\* stopVoiceActivityDetection).
RecorderStops ==
  /\ RecordingNow
  /\ recorder'[mediaRecorderRef] = "inactive"

\* Every recorder that is recording records a stream that is still live.
RecordersOnLiveStreams ==
  \A a \in Attempts : recorder[a] = "recording" => stream[a] = "live"

\* C29: the step that stops the recorder cancels the pending frame (the ref holds
\* no pending frame after it) and dispatches the zero sample; while no recorder
\* records no loop is scheduled and the last voiceActivity event is not a sample;
\* and at most one loop is scheduled at any time (counted while every recording
\* recorder has a live stream).
C29_LoopStopsCleanly ==
  /\ [][RecorderStops
          => (animationFrameRef' # "pending" /\ voiceActivity' = "zero")]_vars
  /\ [](~AnyRecording => (loops = 0 /\ voiceActivity # "sample"))
  /\ [](RecordersOnLiveStreams => loops <= 1)

\* C30: the two connection indicators agree in every reachable state:
\* isConnected is true exactly when connectionStatus is "connected".
C30_IndicatorsAgree == isConnected <=> (connectionStatus = "connected")

\* A step that delivers a close or an error event of socket a.
ChannelEvent(a) ==
  \/ onerror(a)
  \/ \E code \in CloseCodes, reason \in CloseReasons : onclose(a, code, reason)

\* A close or error event of a socket that a later attempt has replaced in wsRef
\* leaves isConnected and connectionStatus as they were.
SupersededKeepsIndicators ==
  [][\A a \in Attempts :
       (wsRef > a /\ ChannelEvent(a)) => UNCHANGED <<isConnected, connectionStatus>>]_vars

\* Such an event does not stop the audio stream of a later attempt and does not
\* disconnect the room of a later attempt.
SupersededKeepsResources ==
  [][\A a \in Attempts :
       (wsRef > a /\ ChannelEvent(a))
         => /\ audioStreamRef > a => stream'[audioStreamRef] = stream[audioStreamRef]
            /\ roomRef > a => room'[roomRef] = room[roomRef]]_vars

\* C31: events of a superseded channel do not touch the current one: a close or
\* error event of a socket from an earlier attempt, delivered after a later
\* attempt has replaced the refs, changes neither isConnected nor
\* connectionStatus, and neither stops the later attempt's audio stream nor
\* disconnects its room.
C31_SupersededEventsIsolated ==
  SupersededKeepsIndicators /\ SupersededKeepsResources

\* The connect request of attempt a is in flight.
InFlight(a) == pc[a] \notin {"idle", "done"}

\* C32: every connect request eventually settles: when every party answers,
\* connectionStatus "connecting" leads to "connected", "error" or "disconnected",
\* and every request in flight comes to its end.
C32_ConnectSettles ==
  /\ (connectionStatus = "connecting")
        ~> (connectionStatus \in {"connected", "error", "disconnected"})
  /\ \A a \in Attempts : InFlight(a) ~> ~InFlight(a)

\* A request has settled as an error after its room.connect was rejected, its
\* socket being open.
C32_Witness ==
  \E a \in Attempts :
    /\ pc[a] = "done" /\ ws[a] = "OPEN" /\ room[a] = "disconnected"
    /\ connectionStatus = "error" /\ ~isConnected

\* The frames that only set flags or are only logged, and the user_transcript
\* frames.
FlagOrLogFrames == {Frame(t, 0, "") : t \in FlagTypes \cup LogOnlyTypes}
TranscriptFrames == {Frame("user_transcript", c, "") : c \in 1..(MaxMsgs + 1)}

\* A step that delivers this frame, on the WebSocket or on the data channel.
Delivered(raw) ==
  \E a \in Attempts : MessageReceived(a, raw) \/ DataReceived(a, raw)

\* C33: control messages touch only their own fields: a frame that sets flags or
\* is only logged leaves messages, connectionStatus, isConnected and error
\* unchanged, and a user_transcript appends its Turn to messages and changes
\* nothing else.
C33_OwnFieldsOnly ==
  /\ [][\A raw \in FlagOrLogFrames :
          Delivered(raw)
            => UNCHANGED <<messages, connectionStatus, isConnected, error>>]_vars
  /\ [][\A raw \in TranscriptFrames :
          Delivered(raw)
            => /\ messages' = Append(messages, Turn("user", raw.content))
               /\ UNCHANGED <<isConnected, isListening, isSpeaking, connectionStatus,
                              error, sessionId, sessionData, refs, mounted,
                              attemptState, objects, env, capture>>]_vars

\* A user_transcript has arrived on a hook whose flags a processing_started had
\* set: the Turn is the last of messages and isSpeaking is still raised.
C33_Witness ==
  /\ isConnected /\ connectionStatus = "connected" /\ error = NoError
  /\ Len(messages) >= 2 /\ messages[Len(messages)].type = "user"
  /\ isSpeaking /\ ~isListening /\ timers = 0

\* A step of startListening, stopListening or toggleListening, or the step in
\* which a startListening that had to connect goes on after its second of wait.
ListeningStep ==
  \/ startListening
  \/ stopListening
  \/ toggleListening
  \/ \E a \in Attempts : startListeningResumed(a)

\* Control messages go out only in a step of the listening operations taken while
\* the socket in wsRef is OPEN; no other step sends one (nothing is queued).
SendsOnlyWhileOpen ==
  [][control' # control => (SocketIsOpen /\ ListeningStep)]_vars

\* startListening on a hook that is not connected starts a connect and waits;
\* when it goes on and the socket is not OPEN, it sends no message, starts no
\* recorder and leaves error as it was.
NoStartWithoutSocket ==
  /\ [][(~isConnected /\ startListening)
          => (nAttempts' = nAttempts + 1 /\ listenWait'[nAttempts'] /\ UNCHANGED control)]_vars
  /\ [][\A a \in Attempts :
          (~SocketIsOpen /\ startListeningResumed(a))
            => UNCHANGED <<control, recorder, error>>]_vars

\* C34: startListening and stopListening send their control message only if the
\* WebSocket is OPEN at that moment, and nothing is queued for later; and a
\* startListening called while disconnected starts a connect, waits, and if the
\* socket is not open by then sends no start message, starts no recording and
\* records no error.
C34_ControlOnlyWhileOpen == SendsOnlyWhileOpen /\ NoStartWithoutSocket

====
